---- MODULE Spec2Model ----
(***************************************************************************)
(* The SQL token backend of keystone (keystone/token/backends/sql.py):     *)
(* the token table, the key derivation for PKI (ASN.1) tokens, and the six *)
(* driver operations get_token, create_token, delete_token, list_tokens,   *)
(* list_revoked_tokens and flush_expired_tokens.                           *)
(*                                                                         *)
(* The table is the sequence `rows` (in insertion order, which is the scan *)
(* order of a query).  A row is [id, expires, extra, valid].  Python dicts *)
(* are functions from field names to values; a missing key is a name that  *)
(* is not in the DOMAIN.  Time is the integer clock `now`.                 *)
(***************************************************************************)
EXTENDS Integers, Sequences, FiniteSets, TLC

VARIABLES rows, now, response, txn

vars == <<rows, now, response, txn>>

-----------------------------------------------------------------------------
(* Bounds and constants *)

\* the clock runs from 0 to MaxTime
MaxTime == 2

\* Python's None / SQL NULL in the expires column (Column(DateTime, default=None))
None == -1

\* CONF.token.expiration, in clock ticks (used by _get_default_expire_time)
TokenExpiration == 1

\* the sessions that may run delete_token's transaction statement by statement
Sessions == {"s1", "s2"}

\* token ids presented by callers: a UUID-style id, a PKI (ASN.1) id, and the
\* string that is the md5 hex digest of the PKI id
PkiTokenId == "MIIa"
PkiTokenId2 == "MIIbcd"
PkiDigest == "0e8fdbc9eaa187a26f30e1f4a08a9513"
PkiDigest2 == "82846175e6a9371a5a39c5dff819d29f"
TokenIds == {"tok1", PkiTokenId, PkiDigest}

UserIds == {"u1", "u2"}
TenantIds == {"t1", "t2"}

\* the optional tenant_id argument of list_tokens: <<>> is the default None,
\* <<t>> is the tenant id t
TenantArgs == {<<>>} \cup { <<t>> : t \in TenantIds }

\* the non-indexed part of the token data handed to create_token
Extras ==
    { ("user" :> [id |-> "u1"]) @@ ("tenant" :> [id |-> "t1"]),
      ("user" :> [id |-> "u1"]),
      ("tenant" :> [id |-> "t1"]) }

\* values of an explicit 'expires' entry of the token data
ExplicitExpires == {None} \cup (1 .. MaxTime)

-----------------------------------------------------------------------------
(* Python dict helpers *)

\* dict.get(k) / dict.pop(k, None)
DictGet(d, k) == IF k \in DOMAIN d THEN d[k] ELSE None

\* the dict without the keys ks
DictWithout(d, ks) == [k \in (DOMAIN d) \ ks |-> d[k]]

\* the token data create_token may be called with for token_id: every extra
\* with no 'expires' entry or an explicit one, and with or without the 'id'
\* entry the token provider puts in (only with the default expiry)
TokenData(token_id) ==
    { e @@ x : e \in Extras,
               x \in {<<>>} \cup { ("expires" :> v) : v \in ExplicitExpires } }
    \cup { e @@ ("id" :> token_id) : e \in Extras }

-----------------------------------------------------------------------------
(* TokenModel *)

\* TokenModel.from_dict: 'id' and 'expires' become columns, the rest is extra;
\* valid takes the column default True
from_dict(token_dict) ==
    [ id      |-> DictGet(token_dict, "id"),
      expires |-> DictGet(token_dict, "expires"),
      extra   |-> DictWithout(token_dict, {"id", "expires"}),
      valid   |-> TRUE ]

\* TokenModel.to_dict: extra plus the id and expires columns
to_dict(token_ref) ==
    ("id" :> token_ref.id) @@ ("expires" :> token_ref.expires) @@ token_ref.extra

-----------------------------------------------------------------------------
(* Collaborators of the driver *)

\* the length of an md5 hexdigest
DigestLen == 32

\* cms.is_ans1_token: the id is a PKI token (it begins with the ASN.1 marker)
is_ans1_token(token_id) == token_id \in {PkiTokenId, PkiTokenId2}

\* hashlib.md5(token_id).hexdigest(): 32 hexadecimal characters
md5_hexdigest(token_id) ==
    CASE token_id = PkiTokenId  -> PkiDigest
      [] token_id = PkiTokenId2 -> PkiDigest2

\* token.Driver._get_default_expire_time: the current time plus the
\* configured token lifetime
get_default_expire_time(t) == t + TokenExpiration

-----------------------------------------------------------------------------
(* The session's statements on the token table *)

\* session.query(TokenModel).filter_by(id=key, valid=valid)
query_filter_by(rs, key, valid) ==
    SelectSeq(rs, LAMBDA r : r.id = key /\ r.valid = valid)

\* the rows with id = key, whatever their valid flag
RowsWithId(rs, key) == SelectSeq(rs, LAMBDA r : r.id = key)

\* Query.first(): <<>> is None, <<r>> is the first row of the result
first(q) == IF Len(q) = 0 THEN <<>> ELSE <<Head(q)>>

\* a uniqueness check that looks at the valid rows only
CanInsertValidOnly(rs, token_ref) ==
    \A i \in DOMAIN rs : rs[i].valid = TRUE => rs[i].id # token_ref.id

\* session.add(token_ref); session.flush(): the INSERT, refused by the
\* primary key on id when a row with that id is in the table
CanInsert(rs, token_ref) == \A i \in DOMAIN rs : rs[i].id # token_ref.id

\* a revocation that deletes the row instead of flagging it
update_valid_delete(rs, key, v) == SelectSeq(rs, LAMBDA r : r.id # key)

\* the UPDATE that the flush of token_ref.valid = False issues:
\* UPDATE token SET valid = v WHERE id = key
update_valid(rs, key, v) ==
    [i \in DOMAIN rs |-> IF rs[i].id = key THEN [rs[i] EXCEPT !.valid = v]
                                            ELSE rs[i]]

\* the expiry filter of the listings off by one (expires >= t)
ExpiresAtOrAfter(r, t) == r.expires # None /\ r.expires >= t

\* the rows a filter on TokenModel.expires > t keeps (NULL > t is not true)
ExpiresAfter(r, t) == r.expires # None /\ r.expires > t

\* the rows a filter on TokenModel.expires < t keeps (NULL < t is not true)
ExpiresBefore(r, t) == r.expires # None /\ r.expires < t

-----------------------------------------------------------------------------
(* The driver: each operation maps the table and the clock to the new table *)
(* and the response the caller sees.                                       *)

Response(op, args, status, value) ==
    [op |-> op, args |-> args, status |-> status, value |-> value]

\* token_to_key that never hashes
token_to_key_identity(token_id) == token_id

\* Token.token_to_key
token_to_key(token_id) ==
    IF is_ans1_token(token_id) THEN md5_hexdigest(token_id) ELSE token_id

\* get_token with the expiry test off by one (now <= expires)
get_token_le(rs, t, token_id) ==
    LET token_ref == first(query_filter_by(rs, token_to_key(token_id), TRUE))
    IN  IF token_ref # <<>>
           /\ (token_ref[1].expires = None \/ t <= token_ref[1].expires)
        THEN [rows |-> rs,
              response |-> Response("get_token", <<token_id>>, "ok",
                                    to_dict(token_ref[1]))]
        ELSE [rows |-> rs,
              response |-> Response("get_token", <<token_id>>,
                                    "TokenNotFound", <<>>)]

\* get_token deleting the row it finds expired (expiry on read)
get_token_reaping(rs, t, token_id) ==
    LET key == token_to_key(token_id)
        token_ref == first(query_filter_by(rs, key, TRUE))
    IN  IF token_ref # <<>>
           /\ (token_ref[1].expires = None \/ t < token_ref[1].expires)
        THEN [rows |-> rs,
              response |-> Response("get_token", <<token_id>>, "ok",
                                    to_dict(token_ref[1]))]
        ELSE [rows |-> SelectSeq(rs, LAMBDA r : ~(r.id = key /\ r.valid = TRUE)),
              response |-> Response("get_token", <<token_id>>,
                                    "TokenNotFound", <<>>)]

\* get_token looking the row up by the identifier as given
get_token_rawkey(rs, t, token_id) ==
    LET token_ref == first(query_filter_by(rs, token_id, TRUE))
    IN  IF token_ref # <<>>
           /\ (token_ref[1].expires = None \/ t < token_ref[1].expires)
        THEN [rows |-> rs,
              response |-> Response("get_token", <<token_id>>, "ok",
                                    to_dict(token_ref[1]))]
        ELSE [rows |-> rs,
              response |-> Response("get_token", <<token_id>>,
                                    "TokenNotFound", <<>>)]

\* Token.get_token
get_token(rs, t, token_id) ==
    LET token_ref == first(query_filter_by(rs, token_to_key(token_id), TRUE))
    IN  IF token_ref # <<>>
           /\ (token_ref[1].expires = None \/ t < token_ref[1].expires)
        THEN [rows |-> rs,
              response |-> Response("get_token", <<token_id>>, "ok",
                                    to_dict(token_ref[1]))]
        ELSE [rows |-> rs,
              response |-> Response("get_token", <<token_id>>,
                                    "TokenNotFound", <<>>)]

\* create_token storing the row under the token id itself, not its key
create_token_rawid(rs, t, token_id, data) ==
    LET data_copy == IF "expires" \in DOMAIN data
                     THEN data
                     ELSE data @@ ("expires" :> get_default_expire_time(t))
        token_ref == [from_dict(data_copy) EXCEPT
                          !.id = token_id, !.valid = TRUE]
    IN  IF CanInsert(rs, token_ref)
        THEN [rows |-> Append(rs, token_ref),
              response |-> Response("create_token", <<token_id, data>>, "ok",
                                    to_dict(token_ref))]
        ELSE [rows |-> rs,
              response |-> Response("create_token", <<token_id>>,
                                    "DuplicateKey", <<>>)]

\* create_token replacing the row stored under the key (an upsert) instead
\* of inserting
create_token_upsert(rs, t, token_id, data) ==
    LET data_copy == IF "expires" \in DOMAIN data
                     THEN data
                     ELSE data @@ ("expires" :> get_default_expire_time(t))
        token_ref == [from_dict(data_copy) EXCEPT
                          !.id = token_to_key(token_id), !.valid = TRUE]
    IN  [rows |-> IF CanInsert(rs, token_ref)
                  THEN Append(rs, token_ref)
                  ELSE [i \in DOMAIN rs |-> IF rs[i].id = token_ref.id
                                            THEN token_ref ELSE rs[i]],
         response |-> Response("create_token", <<token_id, data>>, "ok",
                               to_dict(token_ref))]

\* create_token without the default expiry: the data's expires, or None
create_token_nodefault(rs, t, token_id, data) ==
    LET token_ref == [from_dict(data) EXCEPT
                          !.id = token_to_key(token_id), !.valid = TRUE]
    IN  IF CanInsert(rs, token_ref)
        THEN [rows |-> Append(rs, token_ref),
              response |-> Response("create_token", <<token_id, data>>, "ok",
                                    to_dict(token_ref))]
        ELSE [rows |-> rs,
              response |-> Response("create_token", <<token_id>>,
                                    "DuplicateKey", <<>>)]

\* Token.create_token
create_token(rs, t, token_id, data) ==
    LET data_copy == IF "expires" \in DOMAIN data
                     THEN data
                     ELSE data @@ ("expires" :> get_default_expire_time(t))
        token_ref == [from_dict(data_copy) EXCEPT
                          !.id = token_to_key(token_id), !.valid = TRUE]
    IN  IF CanInsert(rs, token_ref)
        THEN [rows |-> Append(rs, token_ref),
              response |-> Response("create_token", <<token_id, data>>, "ok",
                                    to_dict(token_ref))]
        ELSE [rows |-> rs,
              response |-> Response("create_token", <<token_id>>,
                                    "DuplicateKey", <<>>)]

\* delete_token refusing a token that is past its expiry, as get_token does
delete_token_unless_expired(rs, token_id) ==
    LET key == token_to_key(token_id)
        token_ref == first(query_filter_by(rs, key, TRUE))
    IN  IF token_ref # <<>>
           /\ (token_ref[1].expires = None \/ now < token_ref[1].expires)
        THEN [rows |-> update_valid(rs, key, FALSE),
              response |-> Response("delete_token", <<token_id>>, "ok", <<>>)]
        ELSE [rows |-> rs,
              response |-> Response("delete_token", <<token_id>>,
                                    "TokenNotFound", <<>>)]

\* delete_token looking the row up by id alone, so that revoking a revoked
\* token succeeds again
delete_token_idempotent(rs, token_id) ==
    LET key == token_to_key(token_id)
    IN  IF RowsWithId(rs, key) = <<>>
        THEN [rows |-> rs,
              response |-> Response("delete_token", <<token_id>>,
                                    "TokenNotFound", <<>>)]
        ELSE [rows |-> update_valid(rs, key, FALSE),
              response |-> Response("delete_token", <<token_id>>, "ok", <<>>)]

\* Token.delete_token, run to completion
delete_token(rs, token_id) ==
    LET key == token_to_key(token_id)
        token_ref == first(query_filter_by(rs, key, TRUE))
    IN  IF token_ref = <<>>
        THEN [rows |-> rs,
              response |-> Response("delete_token", <<token_id>>,
                                    "TokenNotFound", <<>>)]
        ELSE [rows |-> update_valid(rs, key, FALSE),
              response |-> Response("delete_token", <<token_id>>, "ok", <<>>)]

\* the test list_tokens applies to the dict of one scanned row
OwnerMatches(token_ref_dict, user_id, tenant_id) ==
    /\ "user" \in DOMAIN token_ref_dict
    /\ token_ref_dict["user"].id = user_id
    /\ tenant_id # <<>> =>
          /\ "tenant" \in DOMAIN token_ref_dict
          /\ token_ref_dict["tenant"].id = tenant_id[1]

\* the scan of list_tokens without the filter on valid
ListTokensQueryAnyValid(rs, t) == SelectSeq(rs, LAMBDA r : ExpiresAfter(r, t))

\* the query list_tokens scans
ListTokensQuery(rs, t) ==
    SelectSeq(rs, LAMBDA r : ExpiresAfter(r, t) /\ r.valid = TRUE)

\* Token.list_tokens
list_tokens(rs, t, user_id, tenant_id) ==
    LET found == SelectSeq(ListTokensQuery(rs, t),
                     LAMBDA r : OwnerMatches(to_dict(r), user_id, tenant_id))
    IN  [rows |-> rs,
         response |-> Response("list_tokens", <<user_id, tenant_id>>, "ok",
                               [i \in DOMAIN found |-> found[i].id])]

\* the scan of list_revoked_tokens without the filter on expires
ListRevokedQueryAnyExpiry(rs, t) == SelectSeq(rs, LAMBDA r : r.valid = FALSE)

\* the query list_revoked_tokens scans
ListRevokedQuery(rs, t) ==
    SelectSeq(rs, LAMBDA r : ExpiresAfter(r, t) /\ r.valid = FALSE)

\* Token.list_revoked_tokens
list_revoked_tokens(rs, t) ==
    LET found == ListRevokedQuery(rs, t)
    IN  [rows |-> rs,
         response |-> Response("list_revoked_tokens", <<>>, "ok",
                  [i \in DOMAIN found |->
                      [id |-> found[i].id, expires |-> found[i].expires]])]

\* flush_expired_tokens deleting one expired row per run (the first found)
flush_expired_tokens_one(rs, t) ==
    LET expired == { i \in DOMAIN rs : ExpiresBefore(rs[i], t) }
        victim  == IF expired = {} THEN 0
                   ELSE CHOOSE i \in expired : \A j \in expired : i <= j
    IN  [rows |-> [i \in 1 .. (Len(rs) - (IF victim = 0 THEN 0 ELSE 1)) |->
                      IF victim = 0 \/ i < victim THEN rs[i] ELSE rs[i + 1]],
         response |-> Response("flush_expired_tokens", <<>>, "ok", <<>>)]

\* flush_expired_tokens taking a row without expires for an expired one
flush_expired_tokens_null(rs, t) ==
    [rows |-> SelectSeq(rs, LAMBDA r : ~(r.expires = None \/ r.expires < t)),
     response |-> Response("flush_expired_tokens", <<>>, "ok", <<>>)]

\* flush_expired_tokens purging the revoked rows only
flush_expired_tokens_revoked(rs, t) ==
    [rows |-> SelectSeq(rs, LAMBDA r : ~(ExpiresBefore(r, t) /\ r.valid = FALSE)),
     response |-> Response("flush_expired_tokens", <<>>, "ok", <<>>)]

\* flush_expired_tokens deleting the rows that expire at this instant too
flush_expired_tokens_le(rs, t) ==
    [rows |-> SelectSeq(rs, LAMBDA r : ~(r.expires # None /\ r.expires <= t)),
     response |-> Response("flush_expired_tokens", <<>>, "ok", <<>>)]

\* Token.flush_expired_tokens
flush_expired_tokens(rs, t) ==
    [rows |-> SelectSeq(rs, LAMBDA r : ~ExpiresBefore(r, t)),
     response |-> Response("flush_expired_tokens", <<>>, "ok", <<>>)]

-----------------------------------------------------------------------------
(* Specification: the operations called one at a time *)

IdleTxn == [s \in Sessions |-> [pc |-> "idle", token_id |-> ""]]

Init ==
    /\ rows = <<>>
    /\ now = 0
    /\ response = Response("init", <<>>, "ok", <<>>)
    /\ txn = IdleTxn

Apply(result) ==
    /\ rows' = result.rows
    /\ response' = result.response
    /\ UNCHANGED <<now, txn>>

GetToken == \E token_id \in TokenIds : Apply(get_token(rows, now, token_id))

CreateToken ==
    \E token_id \in TokenIds : \E data \in TokenData(token_id) :
        Apply(create_token(rows, now, token_id, data))

DeleteToken == \E token_id \in TokenIds : Apply(delete_token(rows, token_id))

ListTokens ==
    \E user_id \in UserIds : \E tenant_id \in TenantArgs :
        Apply(list_tokens(rows, now, user_id, tenant_id))

ListRevokedTokens == Apply(list_revoked_tokens(rows, now))

FlushExpiredTokens == Apply(flush_expired_tokens(rows, now))

\* the clock advances
Tick ==
    /\ now < MaxTime
    /\ now' = now + 1
    /\ response' = Response("tick", <<>>, "ok", <<>>)
    /\ UNCHANGED <<rows, txn>>

Next ==
    \/ GetToken
    \/ CreateToken
    \/ DeleteToken
    \/ ListTokens
    \/ ListRevokedTokens
    \/ FlushExpiredTokens
    \/ Tick

Spec == Init /\ [][Next]_vars

-----------------------------------------------------------------------------
(* Specification of delete_token's transaction, statement by statement:    *)
(* several sessions run delete_token at once, each first issuing the       *)
(* SELECT (DeleteQuery) and later the UPDATE and COMMIT of its flush       *)
(* (DeleteFlush).  The SELECT takes no row lock (the query has no          *)
(* with_lockmode), so the storage engine decides what the flush of a       *)
(* session does when another session changed the row in between: it        *)
(* applies the UPDATE, or it aborts the transaction (DeleteConflict).      *)

\* the token data used under this specification
TxnData == ("user" :> [id |-> "u1"])

CreateTokenTxn ==
    \E token_id \in TokenIds : Apply(create_token(rows, now, token_id, TxnData))

\* with session.begin(): token_ref = query.filter_by(id=key, valid=True).first()
DeleteQuery(s) ==
    /\ txn[s].pc = "idle"
    /\ \E token_id \in TokenIds :
         LET token_ref == first(query_filter_by(rows, token_to_key(token_id), TRUE))
         IN  IF token_ref = <<>>
             THEN /\ response' = Response("delete_token", <<token_id>>,
                                          "TokenNotFound", <<>>)
                  /\ UNCHANGED txn
             ELSE /\ txn' = [txn EXCEPT ![s] = [pc |-> "loaded",
                                                token_id |-> token_id]]
                  /\ UNCHANGED response
    /\ UNCHANGED <<rows, now>>

\* token_ref.valid = False; session.flush(); commit.  The UPDATE finds the
\* row by its primary key; with no row left the flush raises (stale data).
DeleteFlush(s) ==
    /\ txn[s].pc = "loaded"
    /\ LET key == token_to_key(txn[s].token_id)
       IN  IF \E i \in DOMAIN rows : rows[i].id = key
           THEN /\ rows' = update_valid(rows, key, FALSE)
                /\ response' = Response("delete_token", <<txn[s].token_id>>,
                                        "ok", <<>>)
           ELSE /\ rows' = rows
                /\ response' = Response("delete_token", <<txn[s].token_id>>,
                                        "StorageUnavailable", <<>>)
    /\ txn' = [txn EXCEPT ![s] = [pc |-> "idle", token_id |-> ""]]
    /\ UNCHANGED now

\* the engine aborts the transaction of a session whose row was changed by
\* another session since its SELECT
DeleteConflict(s) ==
    /\ txn[s].pc = "loaded"
    /\ \E i \in DOMAIN rows :
          rows[i].id = token_to_key(txn[s].token_id) /\ rows[i].valid = FALSE
    /\ response' = Response("delete_token", <<txn[s].token_id>>,
                            "StorageUnavailable", <<>>)
    /\ txn' = [txn EXCEPT ![s] = [pc |-> "idle", token_id |-> ""]]
    /\ UNCHANGED <<rows, now>>

NextTxn ==
    \/ CreateTokenTxn
    \/ \E s \in Sessions : DeleteQuery(s)
    \/ \E s \in Sessions : DeleteFlush(s)
    \/ \E s \in Sessions : DeleteConflict(s)
    \/ GetToken
    \/ FlushExpiredTokens
    \/ Tick

SpecTxn == Init /\ [][NextTxn]_vars

-----------------------------------------------------------------------------
(* Vocabulary of the properties *)

\* the rows of table rs stored under key
RowsWithKey(rs, key) == { rs[i] : i \in { j \in DOMAIN rs : rs[j].id = key } }

\* a record is active at time t: valid, and expires absent or in the future
Active(r, t) == r.valid = TRUE /\ (r.expires = None \/ t < r.expires)

\* the payload a caller sees for a stored record: its extra fields together
\* with its key and its expiry
StoredPayload(r) ==
    [k \in DOMAIN r.extra \cup {"id", "expires"} |->
        IF k = "id" THEN r.id ELSE IF k = "expires" THEN r.expires ELSE r.extra[k]]

-----------------------------------------------------------------------------
\* C1: Fetch(tokenId) returns the stored payload if and only if a record with
\* key derive(tokenId) exists, is valid, and has expires absent or later than
\* the time of the call; in every other case (never created, revoked, purged,
\* expired) it fails with the one error TokenNotFound and returns nothing.
C1_FetchIffActive ==
    response.op = "get_token" =>
        LET key == token_to_key(response.args[1])
            live == { r \in RowsWithKey(rows, key) : Active(r, now) }
        IN  IF live # {}
            THEN /\ response.status = "ok"
                 /\ \E r \in live : response.value = StoredPayload(r)
            ELSE /\ response.status = "TokenNotFound"
                 /\ response.value = <<>>

\* a Fetch of a record that is present and valid but expired failed
C1_Witness ==
    /\ response.op = "get_token"
    /\ response.status = "TokenNotFound"
    /\ \E r \in RowsWithKey(rows, token_to_key(response.args[1])) :
          r.valid = TRUE /\ r.expires # None /\ r.expires <= now

-----------------------------------------------------------------------------
\* C2: a successful Revoke(tokenId) sets valid to false on the record with key
\* derive(tokenId), deletes nothing and changes no key, expires or payload;
\* a record that is revoked stays revoked for as long as it is in the store,
\* and a Fetch of a revoked record fails with TokenNotFound.
C2_RevokeKeepsRecord ==
    [][ /\ (response'.op = "delete_token" /\ response'.status = "ok") =>
              LET key == token_to_key(response'.args[1])
              IN  /\ RowsWithKey(rows, key) # {}
                  /\ DOMAIN rows' = DOMAIN rows
                  /\ \A i \in DOMAIN rows :
                        rows'[i] = IF rows[i].id = key
                                   THEN [rows[i] EXCEPT !.valid = FALSE]
                                   ELSE rows[i]
        /\ \A i \in DOMAIN rows :
              (rows[i].valid = FALSE /\ RowsWithKey(rows', rows[i].id) # {})
                  => RowsWithKey(rows', rows[i].id) = {rows[i]}
        /\ (response'.op = "get_token"
              /\ \E r \in RowsWithKey(rows', token_to_key(response'.args[1])) :
                    r.valid = FALSE)
              => response'.status = "TokenNotFound"
      ]_vars

\* a Fetch failed on a record that is revoked, still stored and not expired
C2_Witness ==
    /\ response.op = "get_token"
    /\ response.status = "TokenNotFound"
    /\ \E r \in RowsWithKey(rows, token_to_key(response.args[1])) :
          r.valid = FALSE /\ r.expires # None /\ now < r.expires

-----------------------------------------------------------------------------
\* C3: Revoke is not idempotent: on an identifier whose record does not exist
\* or is already revoked it fails with TokenNotFound and leaves the store
\* unchanged; the second of two successive Revoke calls on one identifier
\* fails with TokenNotFound.
C3_RevokeNotIdempotent ==
    [][ response'.op = "delete_token" =>
          LET key == token_to_key(response'.args[1])
          IN  /\ (\A r \in RowsWithKey(rows, key) : r.valid = FALSE)
                    => (response'.status = "TokenNotFound" /\ rows' = rows)
              /\ (response.op = "delete_token" /\ response.status = "ok"
                    /\ response.args = response'.args)
                    => response'.status = "TokenNotFound"
      ]_vars

\* a Revoke failed on a record that is stored and already revoked
C3_Witness ==
    /\ response.op = "delete_token"
    /\ response.status = "TokenNotFound"
    /\ \E r \in RowsWithKey(rows, token_to_key(response.args[1])) :
          r.valid = FALSE

-----------------------------------------------------------------------------
\* C4: under any interleaving of concurrent Revoke calls on one key at most
\* one call succeeds and every other call observes TokenNotFound: a Revoke
\* that completes while the record is already revoked does not succeed, it
\* fails with TokenNotFound.
C4_OneRevokeWins ==
    [][ \A s \in Sessions :
          (txn[s].pc = "loaded" /\ txn'[s].pc = "idle"
             /\ \E r \in RowsWithKey(rows, token_to_key(txn[s].token_id)) :
                   r.valid = FALSE)
             => response'.status = "TokenNotFound"
      ]_vars

-----------------------------------------------------------------------------
\* C5: Create(tokenId, payload) fails with DuplicateKey whenever a record with
\* key derive(tokenId) is in the store, whatever its state, and a failed
\* Create leaves the store unchanged; a Create on a free key succeeds; no two
\* records of the store share a key.
C5_CreateDuplicateKey ==
    [][ /\ response'.op = "create_token" =>
              IF RowsWithKey(rows, token_to_key(response'.args[1])) # {}
              THEN response'.status = "DuplicateKey" /\ rows' = rows
              ELSE response'.status = "ok"
        /\ \A i, j \in DOMAIN rows' : rows'[i].id = rows'[j].id => i = j
      ]_vars

\* a Create failed on the key of a record that is revoked
C5_Witness ==
    /\ response.op = "create_token"
    /\ response.status = "DuplicateKey"
    /\ \E r \in RowsWithKey(rows, token_to_key(response.args[1])) :
          r.valid = FALSE

-----------------------------------------------------------------------------
\* C6: round trip: a successful Create(tokenId, payload) stores a valid record
\* and returns the payload's fields together with key = derive(tokenId) and
\* the assigned expires (the payload's, or the default when it has none);
\* when that expires is in the future, a Fetch(tokenId) made right after it
\* succeeds and returns the same value.
C6_CreateFetchRoundTrip ==
    (response.op = "create_token" /\ response.status = "ok") =>
        LET token_id == response.args[1]
            data     == response.args[2]
            out      == response.value
            fetched  == get_token(rows, now, token_id).response
        IN  /\ out["id"] = token_to_key(token_id)
            /\ out["expires"] = IF "expires" \in DOMAIN data
                                THEN data["expires"]
                                ELSE now + TokenExpiration
            /\ DictWithout(out, {"id", "expires"})
                  = DictWithout(data, {"id", "expires"})
            /\ \E r \in RowsWithKey(rows, token_to_key(token_id)) :
                  r.valid = TRUE /\ StoredPayload(r) = out
            /\ (out["expires"] # None /\ now < out["expires"])
                  => (fetched.status = "ok" /\ fetched.value = out)

\* a Create of a PKI token whose data carries the token's own id succeeded
\* with an expiry in the future
C6_Witness ==
    /\ response.op = "create_token"
    /\ response.status = "ok"
    /\ response.args[1] = PkiTokenId
    /\ "id" \in DOMAIN response.args[2]
    /\ now < response.value["expires"]

-----------------------------------------------------------------------------
\* C7: PurgeExpired removes exactly the records with expires < now, valid or
\* not, and leaves every other record (expires >= now, or expires absent)
\* present and unchanged; a removed record is absent from the store and a
\* Fetch of its identifier fails with TokenNotFound.
C7_PurgeExactlyExpired ==
    [][ response'.op = "flush_expired_tokens" =>
          LET gone == { i \in DOMAIN rows :
                          rows[i].expires # None /\ rows[i].expires < now }
              kept == (DOMAIN rows) \ gone
          IN  /\ Len(rows') = Cardinality(kept)
              /\ \A i \in kept : \E j \in DOMAIN rows' : rows'[j] = rows[i]
              /\ \A i \in gone :
                    /\ RowsWithKey(rows', rows[i].id) = {}
                    /\ \A token_id \in TokenIds :
                          token_to_key(token_id) = rows[i].id =>
                             get_token(rows', now', token_id).response.status
                                = "TokenNotFound"
      ]_vars

\* after a purge the store holds a revoked record expiring at this instant
\* and nothing that expired earlier
C7_Witness ==
    /\ response.op = "flush_expired_tokens"
    /\ now > 1
    /\ \E i \in DOMAIN rows : rows[i].expires = now /\ rows[i].valid = FALSE
    /\ \A i \in DOMAIN rows : rows[i].expires = None \/ rows[i].expires >= now

-----------------------------------------------------------------------------
(* Vocabulary of the listings *)

\* the owner sub-field of the record's payload is present and equals user_id
OwnerIs(r, user_id) ==
    "user" \in DOMAIN r.extra /\ r.extra["user"].id = user_id

\* no scope was asked for, or the scope sub-field is present and equals it
ScopeIs(r, tenant_id) ==
    tenant_id = <<>>
      \/ ("tenant" \in DOMAIN r.extra /\ r.extra["tenant"].id = tenant_id[1])

\* the elements of a sequence
Range(seq) == { seq[i] : i \in DOMAIN seq }

\* C8 as stated: EnumerateByOwner does not filter on valid, so a revoked
\* record whose expires is in the future and whose owner (and scope, if
\* requested) matches is in the returned list of keys.
C8_ListIncludesRevoked ==
    response.op = "list_tokens" =>
        \A i \in DOMAIN rows :
            (rows[i].valid = FALSE
               /\ rows[i].expires # None /\ now < rows[i].expires
               /\ OwnerIs(rows[i], response.args[1])
               /\ ScopeIs(rows[i], response.args[2]))
              => rows[i].id \in Range(response.value)

\* C8 amended: EnumerateByOwner filters on valid == true: every key it
\* returns is the key of a stored record that is valid, so a revoked record
\* is never in the list, even with expires in the future and a matching
\* owner and scope.
C8_ListExcludesRevoked ==
    response.op = "list_tokens" =>
        \A k \in Range(response.value) :
            /\ RowsWithKey(rows, k) # {}
            /\ \A r \in RowsWithKey(rows, k) : r.valid = TRUE

\* a listing left out a revoked record that is not expired and matches the
\* owner and the scope asked for
C8_Witness ==
    /\ response.op = "list_tokens"
    /\ response.args[2] # <<>>
    /\ \E i \in DOMAIN rows :
          /\ rows[i].valid = FALSE
          /\ rows[i].expires # None /\ now < rows[i].expires
          /\ OwnerIs(rows[i], response.args[1])
          /\ ScopeIs(rows[i], response.args[2])
          /\ rows[i].id \notin Range(response.value)

-----------------------------------------------------------------------------
\* C9: EnumerateByOwner(owner, scope?) returns the key of every active record
\* (valid, and expires absent or in the future) whose owner sub-field equals
\* owner, and no key of a record whose owner sub-field is absent or
\* different; with a scope it also leaves out every record whose scope
\* sub-field is absent or different, without one it ignores the scope.
C9_ListEveryActive ==
    response.op = "list_tokens" =>
        /\ \A i \in DOMAIN rows :
              (Active(rows[i], now)
                 /\ OwnerIs(rows[i], response.args[1])
                 /\ ScopeIs(rows[i], response.args[2]))
                => rows[i].id \in Range(response.value)
        /\ \A k \in Range(response.value) : \A r \in RowsWithKey(rows, k) :
              OwnerIs(r, response.args[1]) /\ ScopeIs(r, response.args[2])

-----------------------------------------------------------------------------
\* C10: EnumerateRevoked returns exactly one (key, expires) pair for each
\* record with valid == false and expires > now, and nothing else: no valid
\* record, no record with expires <= now or absent, no purged record.
C10_RevokedListExact ==
    response.op = "list_revoked_tokens" =>
        LET revoked == { i \in DOMAIN rows :
                           /\ rows[i].valid = FALSE
                           /\ rows[i].expires # None
                           /\ rows[i].expires > now }
        IN  /\ Len(response.value) = Cardinality(revoked)
            /\ Range(response.value)
                 = { [id |-> rows[i].id, expires |-> rows[i].expires] :
                        i \in revoked }

\* a revocation list with one entry, taken while the store also holds a
\* revoked record that is not later than now
C10_Witness ==
    /\ response.op = "list_revoked_tokens"
    /\ Len(response.value) = 1
    /\ \E i \in DOMAIN rows :
          rows[i].valid = FALSE /\ rows[i].expires # None /\ rows[i].expires <= now


-----------------------------------------------------------------------------
\* the record stored under the key of token_id is present and valid but
\* logically expired at time t (expires <= t), and not yet purged
ExpiredUnrevoked(rs, t, token_id) ==
    \E r \in RowsWithKey(rs, token_to_key(token_id)) :
        r.valid = TRUE /\ r.expires # None /\ r.expires <= t

\* C11 as stated: Revoke(tokenId) fails with TokenNotFound when the target
\* record is logically expired (present, valid, expires <= now, not purged),
\* and does not flip valid on it.
C11_RevokeExpiredFails ==
    [][ (response'.op = "delete_token"
           /\ ExpiredUnrevoked(rows, now, response'.args[1]))
          => (response'.status = "TokenNotFound" /\ rows' = rows)
      ]_vars

\* C11 amended: Revoke(tokenId) does not look at expires: on a record that is
\* present and valid but logically expired it succeeds and sets valid to
\* false, exactly as on an unexpired record; it fails with TokenNotFound only
\* when the record is absent or already revoked.
C11_RevokeIgnoresExpiry ==
    [][ response'.op = "delete_token" =>
          LET key == token_to_key(response'.args[1])
          IN  /\ ExpiredUnrevoked(rows, now, response'.args[1])
                    => /\ response'.status = "ok"
                       /\ \A r \in RowsWithKey(rows', key) : r.valid = FALSE
              /\ response'.status = "TokenNotFound"
                    <=> (\A r \in RowsWithKey(rows, key) : r.valid = FALSE)
      ]_vars

\* a Revoke succeeded on a record whose expiry had passed
C11_Witness ==
    /\ response.op = "delete_token"
    /\ response.status = "ok"
    /\ \E r \in RowsWithKey(rows, token_to_key(response.args[1])) :
          r.valid = FALSE /\ r.expires # None /\ r.expires <= now


-----------------------------------------------------------------------------
\* C12: revocation is one-way: for a record that stays in the store valid
\* never goes from false to true and key, expires and payload never change;
\* the only operation that changes a stored record is Revoke (valid from true
\* to false) and the only one that removes a record is PurgeExpired.
C12_RevocationOneWay ==
    [][ /\ \A r \in Range(rows) : \A q \in RowsWithKey(rows', r.id) :
              \/ q = r
              \/ /\ response'.op = "delete_token"
                 /\ response'.status = "ok"
                 /\ r.valid = TRUE
                 /\ q = [r EXCEPT !.valid = FALSE]
        /\ (\E r \in Range(rows) : RowsWithKey(rows', r.id) = {})
              => response'.op = "flush_expired_tokens"
      ]_vars

\* a record created before the clock last advanced is still stored, revoked
\* and expired, after a Create on its key was refused
C12_Witness ==
    /\ response.op = "create_token"
    /\ response.status = "DuplicateKey"
    /\ now = MaxTime
    /\ \E r \in RowsWithKey(rows, token_to_key(response.args[1])) :
          r.valid = FALSE /\ r.expires # None /\ r.expires < now


-----------------------------------------------------------------------------
\* C13 as stated: every record in the store has a non-absent expires, so no
\* record created through Create is a never-expiring record.
C13_ExpiresNeverAbsent ==
    \A r \in Range(rows) : r.expires # None

\* C13 amended: Create assigns the configured default expiry whenever the
\* payload has no expires entry, and stores the payload's own expires
\* otherwise; a record with an absent expires comes into the store only by a
\* Create whose payload carries an explicit expires entry that is None.
C13_DefaultExpiryWhenOmitted ==
    [][ /\ (response'.op = "create_token" /\ response'.status = "ok") =>
              LET data == response'.args[2]
                  new  == rows'[Len(rows')]
              IN  /\ Len(rows') = Len(rows) + 1
                  /\ "expires" \notin DOMAIN data =>
                        (new.expires = now + TokenExpiration
                           /\ new.expires # None)
                  /\ "expires" \in DOMAIN data => new.expires = data["expires"]
        /\ \A r \in Range(rows') :
              (r.expires = None /\ RowsWithKey(rows, r.id) = {}) =>
                  /\ response'.op = "create_token"
                  /\ response'.status = "ok"
                  /\ "expires" \in DOMAIN response'.args[2]
                  /\ response'.args[2]["expires"] = None
      ]_vars

\* a Create whose payload carries expires = None stored a record with an
\* absent expires
C13_Witness ==
    /\ response.op = "create_token"
    /\ response.status = "ok"
    /\ "expires" \in DOMAIN response.args[2]
    /\ response.args[2]["expires"] = None
    /\ \E r \in RowsWithKey(rows, token_to_key(response.args[1])) :
          r.expires = None


-----------------------------------------------------------------------------
\* C14: PurgeExpired is idempotent: right after a run no record with
\* expires < now is left, so a second run in succession removes zero records
\* and leaves the store as the first run left it.
C14_PurgeIdempotent ==
    response.op = "flush_expired_tokens" =>
        /\ \A r \in Range(rows) : ~(r.expires # None /\ r.expires < now)
        /\ flush_expired_tokens(rows, now).rows = rows

\* a purge at the end of the clock left exactly one record, which expires at
\* this instant
C14_Witness ==
    /\ response.op = "flush_expired_tokens"
    /\ now = MaxTime
    /\ Len(rows) = 1
    /\ rows[1].expires = now
    /\ rows[1].valid = TRUE


-----------------------------------------------------------------------------
\* the identifiers token_to_key is applied to: those the operations are
\* called with, and a second, longer PKI token id
KeyInputs == TokenIds \cup {PkiTokenId2}

\* C15: derive depends on its argument alone: for an identifier that is not in
\* the legacy (PKI) format derive(tokenId) = tokenId; for one that is, derive
\* returns the digest, of one fixed length whatever the length of the
\* identifier; Create, Fetch and Revoke all address the record by that key.
C15_DeriveKey ==
    /\ \A token_id \in KeyInputs :
          IF is_ans1_token(token_id)
          THEN /\ token_to_key(token_id) = md5_hexdigest(token_id)
               /\ Len(token_to_key(token_id)) = DigestLen
          ELSE token_to_key(token_id) = token_id
    /\ \E a, b \in KeyInputs :
          /\ is_ans1_token(a) /\ is_ans1_token(b) /\ Len(a) # Len(b)
          /\ Len(token_to_key(a)) = Len(token_to_key(b))
    /\ (response.op \in {"create_token", "get_token"} /\ response.status = "ok")
          => /\ response.value["id"] = token_to_key(response.args[1])
             /\ \E r \in Range(rows) : r.id = response.value["id"] /\ r.valid = TRUE
    /\ (response.op = "delete_token" /\ response.status = "ok")
          => \E r \in Range(rows) :
                r.id = token_to_key(response.args[1]) /\ r.valid = FALSE

\* a Revoke called with the PKI token id succeeded on the record stored under
\* its digest
C15_Witness ==
    /\ response.op = "delete_token"
    /\ response.status = "ok"
    /\ response.args[1] = PkiTokenId
    /\ \E r \in Range(rows) : r.id = PkiDigest /\ r.valid = FALSE


-----------------------------------------------------------------------------
\* C16: Fetch, EnumerateByOwner and EnumerateRevoked never change the store:
\* after any of them, successful or failing with TokenNotFound, the records
\* and every record's key, expires, payload and valid are as before the call.
C16_ReadsChangeNothing ==
    [][ response'.op \in {"get_token", "list_tokens", "list_revoked_tokens"}
          => rows' = rows
      ]_vars

\* a Fetch failed on a record that is valid but expired since an earlier
\* instant, and the record is still stored beside another one
C16_Witness ==
    /\ response.op = "get_token"
    /\ response.status = "TokenNotFound"
    /\ Len(rows) = 2
    /\ \E r \in RowsWithKey(rows, token_to_key(response.args[1])) :
          r.valid = TRUE /\ r.expires # None /\ r.expires < now


-----------------------------------------------------------------------------
(* Specification in which tokens are created only under the identifiers    *)
(* issued to callers, never under the digest of a PKI token, while Fetch   *)
(* and Revoke may be called with any identifier.                           *)

IssuedTokenIds == {"tok1", PkiTokenId}

CreateTokenIssued ==
    \E token_id \in IssuedTokenIds : \E data \in TokenData(token_id) :
        Apply(create_token(rows, now, token_id, data))

NextIssued ==
    \/ CreateTokenIssued
    \/ GetToken
    \/ DeleteToken
    \/ FlushExpiredTokens
    \/ Tick

SpecIssued == Init /\ [][NextIssued]_vars

\* C17 as stated: Fetch(x) or Revoke(x) succeeds only if an earlier Create
\* was made with the identifier x itself; the digest of a PKI token, which is
\* never created here, does not reach the token's record.
C17_OnlyIssuedIdsSucceed ==
    (response.op \in {"get_token", "delete_token"} /\ response.status = "ok")
        => response.args[1] \in IssuedTokenIds

\* C17 amended: Fetch(x) or Revoke(x) succeeds only if a record is stored
\* under derive(x), that is, only if a Create was made with an identifier of
\* the same derived key; the digest of a PKI token is its own key, so
\* presenting it reaches the token's record: Fetch and Revoke called with the
\* digest do exactly what they do when called with the PKI token id.
C17_DigestReachesRecord ==
    /\ (response.op \in {"get_token", "delete_token"} /\ response.status = "ok")
          => /\ \E y \in IssuedTokenIds :
                    token_to_key(y) = token_to_key(response.args[1])
             /\ RowsWithKey(rows, token_to_key(response.args[1])) # {}
    /\ get_token(rows, now, PkiDigest).response.status
          = get_token(rows, now, PkiTokenId).response.status
    /\ get_token(rows, now, PkiDigest).response.value
          = get_token(rows, now, PkiTokenId).response.value
    /\ delete_token(rows, PkiDigest).response.status
          = delete_token(rows, PkiTokenId).response.status
    /\ delete_token(rows, PkiDigest).rows = delete_token(rows, PkiTokenId).rows

\* a Fetch called with the digest returned the record of the PKI token
C17_Witness ==
    /\ response.op = "get_token"
    /\ response.status = "ok"
    /\ response.args[1] = PkiDigest
    /\ response.value["id"] = token_to_key(PkiTokenId)


-----------------------------------------------------------------------------
\* C18: listing agrees with lookup: each key EnumerateByOwner returns is
\* usable at that instant: it is the key of a stored record that is neither
\* revoked nor expired, and Fetch called with the key succeeds and Revoke
\* called with the key succeeds.
C18_ListedKeysUsable ==
    response.op = "list_tokens" =>
        \A k \in Range(response.value) :
            /\ \E r \in RowsWithKey(rows, k) : TRUE
            /\ \A r \in RowsWithKey(rows, k) :
                  r.valid = TRUE /\ (r.expires = None \/ now < r.expires)
            /\ get_token(rows, now, k).response.status = "ok"
            /\ get_token(rows, now, k).response.value["id"] = k
            /\ delete_token(rows, k).response.status = "ok"

\* a listing returned the digest key of a PKI token while the store also
\* holds a record that is expired or revoked
C18_Witness ==
    /\ response.op = "list_tokens"
    /\ PkiDigest \in Range(response.value)
    /\ \E r \in Range(rows) :
          r.valid = FALSE \/ (r.expires # None /\ r.expires <= now)


-----------------------------------------------------------------------------
\* C19: PurgeExpired never removes a usable token: every record it deletes
\* is one for which Fetch at that instant already fails with TokenNotFound,
\* and a record with expires == now or expires absent is never deleted by it.
C19_PurgeSparesUsable ==
    [][ response'.op = "flush_expired_tokens" =>
          /\ \A r \in Range(rows) :
                RowsWithKey(rows', r.id) = {} =>
                   /\ ~Active(r, now)
                   /\ \A token_id \in TokenIds :
                         token_to_key(token_id) = r.id =>
                            get_token(rows, now, token_id).response.status
                               = "TokenNotFound"
          /\ \A r \in Range(rows) :
                (r.expires = None \/ r.expires = now) => r \in Range(rows')
          /\ \A token_id \in TokenIds :
                get_token(rows, now, token_id).response.status = "ok"
                   => get_token(rows', now', token_id).response
                         = get_token(rows, now, token_id).response
      ]_vars

\* after a purge past the start of the clock the store holds a valid record
\* without expires and a valid record that expires at this instant
C19_Witness ==
    /\ response.op = "flush_expired_tokens"
    /\ now > 0
    /\ Len(rows) = 2
    /\ \E r \in Range(rows) : r.valid = TRUE /\ r.expires = None
    /\ \E r \in Range(rows) : r.valid = TRUE /\ r.expires = now


-----------------------------------------------------------------------------
(* Specification with the scheduling C20 assumes: time keeps advancing (up *)
(* to the end of the model's clock) and the periodic purge keeps being run. *)

\* the token data used under this specification: one owner, with no expires
\* entry or an explicit one
FairData ==
    { ("user" :> [id |-> "u1"]) @@ x :
        x \in {<<>>} \cup { ("expires" :> v) : v \in ExplicitExpires } }

CreateTokenFair ==
    \E token_id \in TokenIds : \E data \in FairData :
        Apply(create_token(rows, now, token_id, data))

NextFair ==
    \/ CreateTokenFair
    \/ GetToken
    \/ DeleteToken
    \/ FlushExpiredTokens
    \/ Tick

SpecFair ==
    /\ Init
    /\ [][NextFair]_vars
    /\ WF_vars(Tick)
    /\ WF_vars(FlushExpiredTokens)

\* the storage keys of the model
Keys == { token_to_key(token_id) : token_id \in TokenIds }

\* no record is stored under key k, and a Create with an identifier of that
\* key succeeds
Collected(k) ==
    /\ RowsWithKey(rows, k) = {}
    /\ \A token_id \in TokenIds : token_to_key(token_id) = k =>
          \A data \in FairData :
              create_token(rows, now, token_id, data).response.status = "ok"

\* C20 as stated: with time advancing and PurgeExpired run again and again,
\* every record ever created is eventually removed, valid or revoked, and
\* Create with its identifier then succeeds again.  (Stated for the records
\* that the end of the model's clock does not keep: expires absent, or
\* earlier than MaxTime.)
C20_EveryRecordCollected ==
    \A k \in Keys :
        (\E r \in RowsWithKey(rows, k) : r.expires = None \/ r.expires < MaxTime)
            ~> Collected(k)

\* C20 amended: with time advancing and PurgeExpired run again and again,
\* every record with a non-absent expires is eventually removed once the
\* clock has passed its expires, valid or revoked, and Create with its
\* identifier then succeeds again; a record with expires absent is never
\* removed.
C20_ExpiringRecordsCollected ==
    /\ \A k \in Keys :
          (\E r \in RowsWithKey(rows, k) :
                r.expires # None /\ r.expires < MaxTime)
              ~> Collected(k)
    /\ [][ \A r \in Range(rows) :
              r.expires = None => RowsWithKey(rows', r.id) # {} ]_vars

\* a Create succeeded at the end of the clock, beside a revoked record
\* without expires, on a key whose earlier record had been purged
C20_Witness ==
    /\ response.op = "create_token"
    /\ response.status = "ok"
    /\ now = MaxTime
    /\ Len(rows) = 2
    /\ rows[1].expires = None /\ rows[1].valid = FALSE

====
